---------------------------- MODULE Spec2Model ----------------------------
(***************************************************************************)
(* A model of the reconciliation engine of src/sync_jira.js: sync() and    *)
(* the functions it calls (norm, rowHash, loadState, saveState, setStatus, *)
(* processRow), together with the two collaborators it talks to: the       *)
(* tabular source (the sheet, edited by people between runs) and the       *)
(* issue tracker (whose calls may fail, and whose entities people delete). *)
(***************************************************************************)
EXTENDS Integers, Sequences, FiniteSets, TLC

(***************************************************************************)
(* Bounds of the model.                                                    *)
(***************************************************************************)
MaxRuns == 2        \* runs of sync() in one behaviour
MaxEdits == 2       \* edits of the sheet by its owners
MaxHuman == 1       \* out-of-band deletions at the tracker
MaxFaults == 1      \* failed or refused calls, terminated runs, damaged files
MaxIssues == 3      \* remote entities ever created

(***************************************************************************)
(* Program constants.                                                      *)
(***************************************************************************)
SnapshotMaxResults == 1000   \* maxResults of the bulk query
QueryMaxResults == 5         \* maxResults of the point query

Keys == {"K1", "K2"}                          \* external keys, in sheet order
KeyOrder == <<"K1", "K2">>
ISSUE_TYPE_IDS == {"JTBD", "Thread", "Milestone"}
NoKey == ""                                   \* a blank cell
None == 0                                     \* undefined (no remote id)
\* the levels of the hierarchy
Level(t) == CASE t = "JTBD" -> 1 [] t = "Thread" -> 2 [] t = "Milestone" -> 3
              [] OTHER -> 0

VALID_STATUSES ==
    {"On track", "Not on track", "Delayed", "Done", "Done, BAU",
     "Dependent", "Deprioritised", "Review Stage", "Not picked yet"}

(***************************************************************************)
(* Text.  A summary is a sequence of one-character strings, so that norm   *)
(* is computed the way the code computes it.                               *)
(***************************************************************************)
toLowerChar(c) ==
    CASE c = "A" -> "a"
      [] c = "B" -> "b"
      [] OTHER -> c

IsSpace(c) == c = " "

RECURSIVE trimStart(_)
trimStart(s) ==
    IF s = <<>> THEN <<>>
    ELSE IF IsSpace(Head(s)) THEN trimStart(Tail(s)) ELSE s

RECURSIVE trimEnd(_)
trimEnd(s) ==
    IF s = <<>> THEN <<>>
    ELSE IF IsSpace(s[Len(s)]) THEN trimEnd(SubSeq(s, 1, Len(s) - 1)) ELSE s

trim(s) == trimEnd(trimStart(s))

toLowerCase(s) == [i \in 1..Len(s) |-> toLowerChar(s[i])]

\* replace(/\s+/g, ' '): every maximal run of white space becomes one space
RECURSIVE collapseSpaces(_)
collapseSpaces(s) ==
    IF s = <<>> THEN <<>>
    ELSE IF IsSpace(Head(s))
         THEN <<" ">> \o collapseSpaces(trimStart(s))
         ELSE <<Head(s)>> \o collapseSpaces(Tail(s))

norm(s) == collapseSpaces(toLowerCase(trim(s)))

\* status labels are atoms; this is toLowerCase on the labels the model uses
lowerLabel(l) ==
    CASE l = "On track" -> "on track"
      [] l = "Not on track" -> "not on track"
      [] l = "Delayed" -> "delayed"
      [] l = "Done" -> "done"
      [] l = "DONE" -> "done"
      [] l = "Done, BAU" -> "done, bau"
      [] l = "Dependent" -> "dependent"
      [] l = "Deprioritised" -> "deprioritised"
      [] l = "Review Stage" -> "review stage"
      [] l = "Not picked yet" -> "not picked yet"
      [] l = "To Do" -> "to do"
      [] l = "Bogus" -> "bogus"
      [] OTHER -> l

(***************************************************************************)
(* The values the sheet and the tracker draw from.                         *)
(***************************************************************************)
SumAB == <<"a", " ", "b">>
SumAB2 == <<"A", " ", " ", "b">>            \* norm-equal to SumAB
SumB == <<"b">>
SheetSummaries == {SumAB, SumAB2, SumB}     \* cells are trimmed by getSheetData
HumanSummaries == {<<" ", "A", " ", "B">>,  \* norm-equal to SumAB
                   <<"a", " ", "b", " ", "b">>}   \* contains "a b", not equal
SheetStatuses == {"", "DONE", "Bogus"}
InitialStatuses == {"Not picked yet"}       \* where the workflow puts a new entity

\* 'Assignee (Owner Mail ID)' cells: blank, the mail of a person the tracker
\* knows, the mail of one it does not know
NoEmail == ""
SheetAssignees == {NoEmail, "ann@x.io", "ghost@x.io"}
\* 'Due Date' cells: blank, a DD/MM/YYYY date, a date in another format
NoDate == <<>>
DueDMY == <<"5", "/", "1", "/", "2", "0", "2", "6">>
DueISO == <<"2", "0", "2", "6", "-", "0", "1", "-", "0", "5">>
SheetDueDates == {NoDate, DueDMY, DueISO}

NoRow == [type |-> "", summary |-> <<>>, parent |-> NoKey, status |-> "",
          assignee |-> NoEmail, due |-> NoDate]
Rows == [type : ISSUE_TYPE_IDS, summary : SheetSummaries,
         parent : Keys \cup {NoKey}, status : SheetStatuses,
         assignee : {NoEmail}, due : {NoDate}]

\* the rows the owners of the sheet write under each key: K1, the first row
\* of the sheet, may name K2 as its parent
RowChoices(k) ==
    IF k = "K1"
    THEN {r \in Rows : r.summary = SumAB /\ r.parent \in {NoKey, "K2"}
                        /\ r.status \in {"", "DONE"}}
    ELSE {r \in Rows : r.type \in {"JTBD", "Thread"} /\ r.summary \in {SumAB2, SumB}
                        /\ r.parent = NoKey /\ r.status \in {"DONE", "Bogus"}}

\* the ten fields of rowHash joined by '|'; the five metric cells, which
\* the model does not carry, are blank
rowHash(r) ==
    r.summary \o <<"|", r.parent, "|", r.assignee, "|">> \o r.due
              \o <<"|", r.status, "|", "", "|", "", "|", "", "|", "", "|", "">>

\* the parts of s between the occurrences of sep
RECURSIVE Split(_, _)
Split(s, sep) ==
    IF s = <<>> THEN << <<>> >>
    ELSE LET rest == Split(Tail(s), sep)
         IN IF Head(s) = sep THEN << <<>> >> \o rest
            ELSE << <<Head(s)>> \o Head(rest) >> \o Tail(rest)

Digits == {"0", "1", "2", "3", "4", "5", "6", "7", "8", "9"}
AllDigits(p) == \A i \in 1..Len(p) : p[i] \in Digits
\* padStart(2, '0')
padStart(p) == IF Len(p) < 2 THEN <<"0">> \o p ELSE p

\* convertDate: YYYY-MM-DD of a DD/MM/YYYY cell, null (NoDate) for a blank
\* cell and for any other text
convertDate(d) ==
    IF d = NoDate THEN NoDate
    ELSE LET m == Split(d, "/")
         IN IF /\ Len(m) = 3
               /\ Len(m[1]) \in 1..2 /\ AllDigits(m[1])
               /\ Len(m[2]) \in 1..2 /\ AllDigits(m[2])
               /\ Len(m[3]) = 4 /\ AllDigits(m[3])
            THEN m[3] \o <<"-">> \o padStart(m[2]) \o <<"-">> \o padStart(m[1])
            ELSE NoDate

\* getDefaultDate: the day thirty days after the run
getDefaultDate == <<"t", "o", "d", "a", "y", "+", "3", "0">>

\* the accounts the tracker's user search finds, by mail
Accounts == [e \in {"ann@x.io"} |-> 101]

\* getUserId: the account id of the mail, null (None) for a blank mail, for
\* a mail the search finds nobody for and for a search that throws; only
\* ids that were found are cached, so the cache changes no result
getUserId(email) ==
    IF email = NoEmail THEN None
    ELSE IF email \in DOMAIN Accounts THEN Accounts[email] ELSE None

\* getBody: the fields of a create request; assignee None: no assignee field
getBody(row, type, parentKey) ==
    [summary |-> row.summary,
     issuetype |-> type,
     duedate |-> IF convertDate(row.due) # NoDate THEN convertDate(row.due)
                 ELSE getDefaultDate,
     parent |-> parentKey,
     assignee |-> getUserId(row.assignee)]

\* getUpdateBody: the fields of an update request; duedate NoDate: no
\* duedate field
getUpdateBody(row) ==
    [summary |-> row.summary, duedate |-> convertDate(row.due), assignee |-> None]

\* applyCustomUpdate: the assignee field is added when the mail resolves
applyCustomUpdate(body, row) ==
    [body EXCEPT !.assignee = getUserId(row.assignee)]

NoHash == <<>>                                \* undefined

Lookup(m, k) == IF k \in DOMAIN m THEN m[k] ELSE None

EmptyState == [issueMapping |-> [k \in Keys |-> None],
               lastHashes |-> [k \in Keys |-> NoHash]]

\* the state file: missing, or its text: the JSON of a state with the two
\* maps the model carries ("state"), text that is not JSON ("garbage"), the
\* JSON of an empty object ("{}") or of null ("null")
NoFile == [exists |-> FALSE, text |-> "", issueMapping |-> [k \in Keys |-> None],
           lastHashes |-> [k \in Keys |-> NoHash]]
BadTexts == {"garbage", "{}", "null"}
BadFile(t) == [NoFile EXCEPT !.exists = TRUE, !.text = t]

\* a property the parsed object does not have: no map, not even an empty one
Undefined == [n \in {} |-> None]
Null == [null |-> TRUE]        \* JSON.parse('null')

\* existsSync, then JSON.parse in a try whose catch falls through to the
\* default; whatever parses is returned as it is
loadState(f) ==
    IF ~f.exists THEN EmptyState
    ELSE IF f.text = "garbage" THEN EmptyState
    ELSE IF f.text = "{}" THEN [issueMapping |-> Undefined, lastHashes |-> Undefined]
    ELSE IF f.text = "null" THEN Null
    ELSE [issueMapping |-> f.issueMapping, lastHashes |-> f.lastHashes]

saveState(st) ==
    [exists |-> TRUE, text |-> "state", issueMapping |-> st.issueMapping,
     lastHashes |-> st.lastHashes]


(***************************************************************************)
(* The tracker's side of the calls.                                        *)
(***************************************************************************)
Min(a, b) == IF a < b THEN a ELSE b

Contains(t, p) ==
    \E o \in 0..(Len(t) - Len(p)) : SubSeq(t, o + 1, o + Len(p)) = p

\* the bulk query: every entity of the project, at most maxResults of them
BulkResults(rem) ==
    {R \in SUBSET (DOMAIN rem) :
        Cardinality(R) = Min(Cardinality(DOMAIN rem), SnapshotMaxResults)}

\* jiraBySummary: one id per normalised summary; the later result of the
\* query wins, and the order of the results is the tracker's
BySummaryChoices(rem, R) ==
    LET names == {norm(rem[i].summary) : i \in R}
    IN {f \in [names -> R] : \A n \in names : norm(rem[f[n]].summary) = n}

\* the point query, summary ~ "\"text\"": the entities whose summary holds
\* the text, at most maxResults of them
QueryResults(rem, summary) ==
    LET M == {i \in DOMAIN rem : Contains(norm(rem[i].summary), norm(summary))}
    IN {R \in SUBSET M : Cardinality(R) = Min(Cardinality(M), QueryMaxResults)}

(***************************************************************************)
(* setStatus(key, status).  cur is the entity's status at the tracker and  *)
(* resp is how the tracker answers: "ok", "readfail" (the status read      *)
(* throws), "listfail" (list-transitions throws), "nopath" (no transition  *)
(* leads to the target), "postfail" (execute-transition throws).  The      *)
(* result says what was returned, which calls were made, the entity's      *)
(* status afterwards and whether a call failed or was refused.             *)
(***************************************************************************)
StatusResponses == {"ok", "readfail", "listfail", "nopath", "postfail"}

\* a validation that turns no label away
validMatchAny(status) == VALID_STATUSES

validMatch(status) ==
    {vs \in VALID_STATUSES : lowerLabel(vs) = lowerLabel(status)}

StatusResult(ok, read, list, post, new, fault) ==
    [ok |-> ok, read |-> read, list |-> list, post |-> post,
     new |-> new, fault |-> fault]

\* a comparison that keeps the case of the current status
SameStatusExact(cur, s) == cur = s

SameStatus(cur, s) == lowerLabel(cur) = s

\* t.data.transitions, by destination name: the workflow's other
\* destinations, followed by the target unless the answer is "nopath"
OtherDestinations(vm) ==
    LET other(l) == lowerLabel(l) # lowerLabel(vm)
    IN SelectSeq(<<"Done, BAU", "Not on track">>, other)

OfferedTransitions(resp, vm) ==
    IF resp = "nopath" THEN OtherDestinations(vm)
    ELSE OtherDestinations(vm) \o <<vm>>

\* a step that takes the first transition the workflow offers
firstTransition(transitions, s) ==
    IF transitions = <<>> THEN "" ELSE Head(transitions)

\* transitions.find(x => x.to.name.toLowerCase() === s): the destination of
\* the transition found, "" when there is none
RECURSIVE transitionTo(_, _)
transitionTo(transitions, s) ==
    IF transitions = <<>> THEN ""
    ELSE IF lowerLabel(Head(transitions)) = s THEN Head(transitions)
    ELSE transitionTo(Tail(transitions), s)

setStatus(cur, status, resp) ==
    IF status = "" THEN StatusResult(TRUE, 0, 0, 0, cur, FALSE)
    ELSE IF validMatch(status) = {} THEN StatusResult(FALSE, 0, 0, 0, cur, FALSE)
    ELSE LET vm == CHOOSE vs \in validMatch(status) : TRUE
             s == lowerLabel(vm)
             tr == transitionTo(OfferedTransitions(resp, vm), s)
         IN IF resp = "readfail" THEN StatusResult(FALSE, 1, 0, 0, cur, TRUE)
            ELSE IF SameStatus(cur, s) THEN StatusResult(TRUE, 1, 0, 0, cur, FALSE)
            ELSE IF resp = "listfail" THEN StatusResult(FALSE, 1, 1, 0, cur, TRUE)
            ELSE IF tr = "" THEN StatusResult(FALSE, 1, 1, 0, cur, TRUE)
            ELSE IF resp = "postfail" THEN StatusResult(FALSE, 1, 1, 1, cur, TRUE)
            ELSE StatusResult(TRUE, 1, 1, 1, tr, FALSE)

\* a status step that is asked for the cell as it is, blank or not
statusAsTyped(row) == row.status

\* Default to 'Not picked yet' if empty
statusToSet(row) == IF row.status # "" THEN row.status ELSE "Not picked yet"

(***************************************************************************)
(* The state.                                                              *)
(***************************************************************************)
VARIABLES
    sheet,          \* the tabular source: Keys -> row, NoRow where no row
    file,           \* sync_state.json
    remote,         \* the tracker: id -> entity, for the entities that exist
    nextId,         \* the id the tracker gives to the next entity
    pc,             \* where sync() is: idle, fetch, cleanup, select, map, process
    issueMapping,   \* state.issueMapping of the run
    lastHashes,     \* state.lastHashes of the run
    results,        \* the summary counts of the run
    jiraKeySet,     \* ids of the snapshot
    jiraBySummary,  \* normalised summary -> id of the snapshot
    snapOk,         \* whether the bulk query of the run returned
    changedRows,    \* keys of the changed rows, in sheet order
    queue,          \* keys still to be processed, in processing order
    out,            \* what the run did for each key
    calls,          \* remote calls of the run, by kind
    hist,           \* what is remembered of earlier steps and runs
    used,           \* how much of each bound is used
    allJiraIssues,  \* the snapshot the cascade reads: id -> entity
    cascadePc,      \* where the cascade is: off, reconcile, refresh, pass, done
    cascadeQueue,   \* ancestors the cascade has still to visit, in order
    cascadeLog,     \* what the cascade saw and did for each ancestor
    parked          \* the memory of a second sync() process while the first acts

vars == <<sheet, file, remote, nextId, pc, issueMapping, lastHashes, results,
          jiraKeySet, jiraBySummary, snapOk, changedRows, queue, out, calls,
          hist, used, allJiraIssues, cascadePc, cascadeQueue, cascadeLog,
          parked>>

cascadeVars == <<allJiraIssues, cascadePc, cascadeQueue, cascadeLog>>

\* what the single-process actions leave alone
otherVars == <<cascadeVars, parked>>

NoOut == [path |-> "none", query |-> "none", bound |-> "none",
          entity |-> "none", status |-> "none", failedInc |-> 0,
          parentRef |-> None, id |-> None, at |-> 0, hashSet |-> FALSE,
          read |-> 0, list |-> 0, post |-> 0, cur |-> "", sresp |-> "none",
          unmapped |-> FALSE, twin |-> FALSE, twins |-> {},
          duedate |-> NoDate, assignee |-> None, parentWas |-> None,
          wanted |-> ""]
NoCalls == [bulk |-> 0, query |-> 0, create |-> 0, update |-> 0,
            read |-> 0, list |-> 0, post |-> 0]
NoResults == [created |-> 0, updated |-> 0, skipped |-> 0, failed |-> 0,
              cascade |-> 0, cleaned |-> 0]
NoHist == [run |-> 0, dirty |-> FALSE, prevFailed |-> 0, orphans |-> {},
           steps |-> 0, cleanedKeys |-> {}, phases |-> <<>>, ended |-> "none",
           writes |-> 0, fileAtStart |-> NoFile, lost |-> {},
           failedKeys |-> {}, editedKeys |-> {}, refusedKeys |-> {}]
NoUsed == [edits |-> 0, human |-> 0, faults |-> 0]
EmptyMap == [n \in {} |-> None]

\* the memory of a sync() process that has not started
NoParked == [pc |-> "idle",
             issueMapping |-> EmptyState.issueMapping,
             lastHashes |-> EmptyState.lastHashes,
             results |-> NoResults, jiraKeySet |-> {}, jiraBySummary |-> EmptyMap,
             snapOk |-> FALSE, changedRows |-> <<>>, queue |-> <<>>,
             out |-> [k \in Keys |-> NoOut], calls |-> NoCalls, hist |-> NoHist]

NewIssue(summary, type, parent, status, by, run) ==
    [summary |-> summary, type |-> type, parent |-> parent, status |-> status,
     by |-> by, run |-> run]

AddIssue(rem, id, issue) ==
    [i \in DOMAIN rem \cup {id} |-> IF i = id THEN issue ELSE rem[i]]

\* the tracker before the engine's first run: empty, or holding one entity
\* that people created
InitialRemotes ==
    {EmptyMap} \cup
    {AddIssue(EmptyMap, 1, NewIssue(s, "JTBD", None, st, "human", 0)) :
        s \in HumanSummaries, st \in InitialStatuses}

Init ==
    /\ sheet = [k \in Keys |-> NoRow]
    /\ file = NoFile
    /\ remote \in InitialRemotes
    /\ nextId = Cardinality(DOMAIN remote) + 1
    /\ pc = "idle"
    /\ issueMapping = EmptyState.issueMapping
    /\ lastHashes = EmptyState.lastHashes
    /\ results = NoResults
    /\ jiraKeySet = {}
    /\ jiraBySummary = EmptyMap
    /\ snapOk = FALSE
    /\ changedRows = <<>>
    /\ queue = <<>>
    /\ out = [k \in Keys |-> NoOut]
    /\ calls = NoCalls
    /\ hist = NoHist
    /\ used = NoUsed
    /\ allJiraIssues = EmptyMap
    /\ cascadePc = "off"
    /\ cascadeQueue = <<>>
    /\ cascadeLog = EmptyMap
    /\ parked = NoParked

runVars == <<pc, issueMapping, lastHashes, results, jiraKeySet, jiraBySummary,
             snapOk, changedRows, queue, out, calls>>

(***************************************************************************)
(* People: the owners of the sheet edit a row; people at the tracker       *)
(* delete an entity.  They act between runs.                               *)
(***************************************************************************)
EditRow(k, r) ==
    /\ pc = "idle"
    /\ used.edits < MaxEdits
    /\ r # sheet[k]
    /\ sheet' = [sheet EXCEPT ![k] = r]
    /\ used' = [used EXCEPT !.edits = @ + 1]
    /\ hist' = [hist EXCEPT !.dirty = TRUE, !.editedKeys = @ \cup {k}]
    /\ UNCHANGED <<file, remote, nextId, runVars>>
    /\ UNCHANGED otherVars



HumanDelete(i) ==
    /\ pc = "idle"
    /\ used.human < MaxHuman
    /\ i \in DOMAIN remote
    /\ remote' = [j \in DOMAIN remote \ {i} |-> remote[j]]
    /\ used' = [used EXCEPT !.human = @ + 1]
    /\ hist' = [hist EXCEPT !.dirty = TRUE]
    /\ UNCHANGED <<sheet, file, nextId, runVars>>
    /\ UNCHANGED otherVars

\* the state file a run saved is overwritten with something that is not a
\* saved state
CorruptFile(t) ==
    /\ pc = "idle"
    /\ used.faults < MaxFaults
    /\ file.exists /\ file.text = "state"
    /\ file' = BadFile(t)
    /\ used' = [used EXCEPT !.faults = @ + 1]
    /\ hist' = [hist EXCEPT !.dirty = TRUE]
    /\ UNCHANGED <<sheet, remote, nextId, runVars>>
    /\ UNCHANGED otherVars

(***************************************************************************)
(* sync(), step by step.                                                   *)
(***************************************************************************)
\* loadState, getSheetData, the counts at zero
StartRun ==
    /\ pc = "idle"
    /\ hist.run < MaxRuns
    /\ loadState(file) # Null
    /\ LET st == loadState(file)
       IN /\ issueMapping' = st.issueMapping
          /\ lastHashes' = st.lastHashes
          /\ hist' = [hist EXCEPT
                 !.run = @ + 1,
                 !.steps = 0,
                 !.cleanedKeys = {},
                 !.phases = <<"source">>,
                 !.ended = "none",
                 !.writes = 0,
                 !.fileAtStart = file,
                 !.orphans = IF st.issueMapping = Undefined THEN {}
                             ELSE {k \in Keys :
                                     /\ st.issueMapping[k] # None
                                     /\ st.issueMapping[k] \notin DOMAIN remote}]
    /\ results' = NoResults
    /\ jiraKeySet' = {}
    /\ jiraBySummary' = EmptyMap
    /\ snapOk' = FALSE
    /\ changedRows' = <<>>
    /\ queue' = <<>>
    /\ out' = [k \in Keys |-> NoOut]
    /\ calls' = NoCalls
    /\ pc' = "fetch"
    /\ UNCHANGED <<sheet, file, remote, nextId, used>>
    /\ UNCHANGED otherVars

\* Fetch ALL Jira Issues: the bulk query returns, or throws and is caught
FetchSnapshot ==
    /\ pc = "fetch"
    /\ \/ \E R \in BulkResults(remote) : \E f \in BySummaryChoices(remote, R) :
            /\ jiraKeySet' = R
            /\ jiraBySummary' = f
            /\ snapOk' = TRUE
            /\ used' = used
       \/ /\ used.faults < MaxFaults
          /\ jiraKeySet' = {}
          /\ jiraBySummary' = EmptyMap
          /\ snapOk' = FALSE
          /\ used' = [used EXCEPT !.faults = @ + 1]
    /\ calls' = [calls EXCEPT !.bulk = @ + 1]
    /\ hist' = [hist EXCEPT !.phases = Append(@, "snapshot")]
    /\ pc' = "cleanup"
    /\ UNCHANGED <<sheet, file, remote, nextId, issueMapping, lastHashes,
                   results, changedRows, queue, out>>
    /\ UNCHANGED otherVars

\* a cleanup that is skipped when the snapshot is empty
StaleKeysOfNonEmpty(mapping, keySet) ==
    IF keySet = {} THEN {}
    ELSE {k \in DOMAIN mapping : mapping[k] # None /\ mapping[k] \notin keySet}

\* CLEANUP: the keys whose remote id is not in the snapshot
StaleKeys(mapping, keySet) ==
    {k \in DOMAIN mapping : mapping[k] # None /\ mapping[k] \notin keySet}

\* delete issueMapping[csvKey]
CleanedMapping(mapping, stale) ==
    [k \in DOMAIN mapping |-> IF k \in stale THEN None ELSE mapping[k]]

\* a cleanup that deletes the mapping only
KeptHashes(hashes, stale) == hashes

\* delete lastHashes[csvKey]
CleanedHashes(hashes, stale) ==
    [k \in DOMAIN hashes |-> IF k \in stale THEN NoHash ELSE hashes[k]]

Cleanup ==
    /\ pc = "cleanup"
    /\ issueMapping # Undefined
    /\ LET stale == StaleKeys(issueMapping, jiraKeySet)
       IN /\ issueMapping' = CleanedMapping(issueMapping, stale)
          /\ lastHashes' = CleanedHashes(lastHashes, stale)
          /\ results' = [results EXCEPT !.cleaned = @ + Cardinality(stale)]
          /\ hist' = [hist EXCEPT !.cleanedKeys = stale,
                                   !.phases = Append(@, "clean")]
    /\ pc' = "select"
    /\ UNCHANGED <<sheet, file, remote, nextId, jiraKeySet, jiraBySummary,
                   snapOk, changedRows, queue, out, calls, used>>
    /\ UNCHANGED otherVars

\* Find Changed Rows
HasKey(k) == sheet[k] # NoRow

\* a selection that takes every row
AlwaysChanged(row, stored) == TRUE

IsChanged(row, stored) == stored # rowHash(row)

FindChangedRows ==
    /\ pc = "select"
    /\ LET changed(k) == HasKey(k) /\ IsChanged(sheet[k], lastHashes[k])
           skipped == {k \in Keys : HasKey(k) /\ ~changed(k)}
       IN /\ changedRows' = SelectSeq(KeyOrder, changed)
          /\ results' = [results EXCEPT !.skipped = @ + Cardinality(skipped)]
          /\ out' = [k \in Keys |->
                       IF k \in skipped THEN [out[k] EXCEPT !.path = "skipped"]
                       ELSE IF changed(k)
                       THEN [out[k] EXCEPT !.unmapped = (issueMapping[k] = None)]
                       ELSE out[k]]
    /\ hist' = [hist EXCEPT !.phases = Append(@, "changes")]
    /\ pc' = "map"
    /\ UNCHANGED <<sheet, file, remote, nextId, issueMapping, lastHashes,
                   jiraKeySet, jiraBySummary, snapOk, queue, calls, used>>
    /\ UNCHANGED otherVars

\* a lookup of the summary as typed
SnapshotMatchRaw(bySummary, summary) == Lookup(bySummary, summary)

\* Map Missing Keys: the snapshot's id for the row's normalised summary
SnapshotMatch(bySummary, summary) == Lookup(bySummary, norm(summary))

\* the rows in sheet order
SheetOrder(rows) == rows

\* Process in Order: JTBD -> Thread -> Milestone
ProcessOrder(rows) ==
    LET isJ(k) == sheet[k].type = "JTBD"
        isT(k) == sheet[k].type = "Thread"
        isM(k) == sheet[k].type = "Milestone"
    IN SelectSeq(rows, isJ) \o SelectSeq(rows, isT) \o SelectSeq(rows, isM)

InSeq(x, q) == \E i \in 1..Len(q) : q[i] = x

MapMissingKeys ==
    /\ pc = "map"
    /\ LET match(k) == SnapshotMatch(jiraBySummary, sheet[k].summary)
           binds(k) == InSeq(k, changedRows) /\ issueMapping[k] = None
                       /\ match(k) # None
       IN /\ issueMapping' = [k \in Keys |-> IF binds(k) THEN match(k)
                                                       ELSE issueMapping[k]]
          /\ out' = [k \in Keys |-> IF binds(k)
                                    THEN [out[k] EXCEPT !.bound = "snapshot"]
                                    ELSE out[k]]
    /\ queue' = ProcessOrder(changedRows)
    /\ hist' = [hist EXCEPT !.phases = @ \o <<"identities", "reconcile">>]
    /\ pc' = "process"
    /\ UNCHANGED <<sheet, file, remote, nextId, lastHashes, results, jiraKeySet,
                   jiraBySummary, snapOk, changedRows, calls, used>>
    /\ UNCHANGED otherVars

(***************************************************************************)
(* processRow(row, type, parentKey) and its callers.                       *)
(***************************************************************************)
\* the third argument of processRow: null for a JTBD, else issueMapping[Parent]
ParentKeyFor(type, row, mapping) ==
    IF type = "JTBD" THEN None ELSE Lookup(mapping, row.parent)

\* a caller that reports every child whose Parent has no mapping
MissingParentOfChild(type, row, mapping) ==
    type # "JTBD" /\ Lookup(mapping, row.parent) = None

\* the rows the caller reports as "No parent for" without calling processRow
MissingParent(type, row, mapping) ==
    type = "Milestone" /\ Lookup(mapping, row.parent) = None

\* an acceptance of any result whose summary holds the row's text
IsContainingMatch(remoteSummary, rowSummary) ==
    Contains(norm(remoteSummary), norm(rowSummary))

\* the point query's result that is accepted: one whose normalised summary
\* equals the row's, None when the results hold no such entity
IsExactMatch(remoteSummary, rowSummary) == norm(remoteSummary) = norm(rowSummary)

FoundChoices(rem, row) ==
    UNION {LET exact == {i \in R : IsExactMatch(rem[i].summary, row.summary)}
           IN IF exact = {} THEN {None} ELSE exact
           : R \in QueryResults(rem, row.summary)}

\* success whatever the status step returned
SyncedAnyway(statusOk) == TRUE

\* success: the record is synced only if its status step succeeded
SyncedOk(statusOk) == statusOk

\* a processRow that stores the fingerprint of every record it handled
StoreHashAlways(hashes, k, h, success) == [hashes EXCEPT ![k] = h]

\* if (success) lastHashes[key] = rowHash(row)
StoreHash(hashes, k, h, success) ==
    IF success THEN [hashes EXCEPT ![k] = h] ELSE hashes

\* results.created++, results.updated++ or results.failed++
CountResult(res, creating, success) ==
    IF success
    THEN IF creating THEN [res EXCEPT !.created = @ + 1]
         ELSE [res EXCEPT !.updated = @ + 1]
    ELSE [res EXCEPT !.failed = @ + 1]

\* every failure of a row is caught inside processRow: the loop goes on with
\* the next row whatever happened to this one
\* a loop that stops at the first failed row
RestUnlessFailed(rows, success) == IF success THEN Tail(rows) ELSE <<>>

RestAfter(rows, success) == Tail(rows)

B2N(b) == IF b THEN 1 ELSE 0

\* an update request that carries the parent reference as a create does
UpdateBodyWithParent(row, parentKey) ==
    LET b == applyCustomUpdate(getUpdateBody(row), row)
    IN [f \in DOMAIN b \cup {"parent"} |->
           IF f = "parent" THEN parentKey ELSE b[f]]

\* the body of the update request: getUpdateBody, then applyCustomUpdate;
\* parentKey is in scope and is not used
UpdateBody(row, parentKey) == applyCustomUpdate(getUpdateBody(row), row)

\* what PUT /issue/{id} does to the entity: the fields the body holds are
\* replaced, the others are kept
putIssue(issue, body) ==
    [issue EXCEPT !.summary = body.summary,
                  !.parent = IF "parent" \in DOMAIN body THEN body.parent ELSE @]

\* processRow for key k, given the tracker's answers: qresp to the point
\* query ("ok" with the accepted result found, or "fail"), eresp to the
\* create or update call, sresp to the calls of setStatus, and init, the
\* status the workflow gives a new entity
processRow(k, type, parentKey, qresp, found, eresp, sresp, init) ==
    LET row == sheet[k]
        mapped == issueMapping[k]
        queried == mapped = None /\ out[k].query = "none"
        jiraKey == IF queried /\ qresp = "ok" THEN found ELSE mapped
        creating == jiraKey = None
        body == IF creating THEN getBody(row, type, parentKey)
                ELSE UpdateBody(row, parentKey)
        entityOk == eresp = "ok"
        cur == IF creating THEN init ELSE remote[jiraKey].status
        sr == IF entityOk THEN setStatus(cur, statusToSet(row), sresp)
              ELSE StatusResult(FALSE, 0, 0, 0, cur, FALSE)
        success == entityOk /\ SyncedOk(sr.ok)
        id == IF creating THEN (IF entityOk THEN nextId ELSE None) ELSE jiraKey
        newRemote ==
            IF ~entityOk THEN remote
            ELSE IF creating
            THEN AddIssue(remote, nextId,
                     NewIssue(body.summary, body.issuetype, body.parent,
                              sr.new, k, hist.run))
            ELSE [remote EXCEPT ![jiraKey] =
                                   [putIssue(@, body) EXCEPT !.status = sr.new]]
    IN [issueMapping |-> [issueMapping EXCEPT ![k] = id],
        lastHashes |-> StoreHash(lastHashes, k, rowHash(row), success),
        results |-> CountResult(results, creating, success),
        success |-> success,
        remote |-> newRemote,
        nextId |-> IF creating /\ entityOk THEN nextId + 1 ELSE nextId,
        calls |-> [calls EXCEPT
                     !.query = @ + B2N(queried),
                     !.create = @ + B2N(creating),
                     !.update = @ + B2N(~creating),
                     !.read = @ + sr.read,
                     !.list = @ + sr.list,
                     !.post = @ + sr.post],
        faults |-> B2N(queried /\ qresp = "fail") + B2N(~entityOk) + B2N(sr.fault),
        out |-> [out[k] EXCEPT
                     !.path = IF creating THEN "create" ELSE "update",
                     !.query = IF queried THEN qresp ELSE @,
                     !.bound = IF queried /\ jiraKey # None THEN "query" ELSE @,
                     !.entity = eresp,
                     !.status = IF ~entityOk THEN "none"
                                ELSE IF sr.ok THEN "ok" ELSE "fail",
                     !.failedInc = @ + B2N(~success),
                     !.parentRef = parentKey,
                     !.id = id,
                     !.at = hist.steps + 1,
                     !.hashSet = success,
                     !.read = sr.read, !.list = sr.list, !.post = sr.post,
                     !.cur = IF entityOk THEN cur ELSE "",
                     !.sresp = IF entityOk THEN sresp ELSE "none",
                     !.twin = \E i \in DOMAIN remote :
                                  norm(remote[i].summary) = norm(row.summary),
                     !.twins = {i \in DOMAIN remote :
                                  norm(remote[i].summary) = norm(row.summary)},
                     !.duedate = body.duedate,
                     !.assignee = body.assignee,
                     !.parentWas = IF creating THEN None
                                   ELSE remote[jiraKey].parent,
                     !.wanted = IF entityOk THEN statusToSet(row) ELSE ""]]

\* one row of the loops over jtbds, threads and milestones
ProcessRow ==
    /\ pc = "process"
    /\ queue # <<>>
    /\ LET k == Head(queue)
           row == sheet[k]
           type == row.type
       IN /\ ~MissingParent(type, row, issueMapping)
          /\ \E qresp \in {"ok", "fail"}, eresp \in {"ok", "fail"},
                sresp \in StatusResponses, init \in InitialStatuses :
             \E found \in (IF issueMapping[k] = None /\ out[k].query = "none"
                              /\ qresp = "ok"
                           THEN FoundChoices(remote, row) ELSE {None}) :
                \E r \in {processRow(k, type, ParentKeyFor(type, row, issueMapping),
                                      qresp, found, eresp, sresp, init)} :
                   \* answers the run does not ask for are not enumerated
                   /\ ((issueMapping[k] # None \/ out[k].query # "none")
                       => qresp = "ok")
                   /\ (eresp = "fail" => sresp = "ok")
                   /\ (sresp = "readfail" => r.out.read = 1)
                   /\ (sresp \in {"listfail", "nopath"} => r.out.list = 1)
                   /\ (sresp = "postfail" => r.out.post = 1)
                   /\ (r.nextId > nextId => nextId <= MaxIssues)
                   /\ used.faults + r.faults <= MaxFaults
                   /\ issueMapping' = r.issueMapping
                   /\ lastHashes' = r.lastHashes
                   /\ results' = r.results
                   /\ remote' = r.remote
                   /\ nextId' = r.nextId
                   /\ calls' = r.calls
                   /\ out' = [out EXCEPT ![k] = r.out]
                   /\ used' = [used EXCEPT !.faults = @ + r.faults]
                   /\ queue' = RestAfter(queue, r.success)
    /\ hist' = [hist EXCEPT !.steps = @ + 1]
    /\ UNCHANGED <<sheet, file, pc, jiraKeySet, jiraBySummary, snapOk, changedRows>>
    /\ UNCHANGED otherVars

\* a Milestone whose Parent has no mapping: "No parent for", counted as failed
NoParent ==
    /\ pc = "process"
    /\ queue # <<>>
    /\ LET k == Head(queue)
       IN /\ MissingParent(sheet[k].type, sheet[k], issueMapping)
          /\ results' = [results EXCEPT !.failed = @ + 1]
          /\ out' = [out EXCEPT ![k] = [@ EXCEPT !.path = "noparent",
                                                 !.failedInc = @ + 1,
                                                 !.at = hist.steps + 1]]
    /\ queue' = RestAfter(queue, FALSE)
    /\ hist' = [hist EXCEPT !.steps = @ + 1]
    /\ UNCHANGED <<sheet, file, remote, nextId, pc, issueMapping, lastHashes,
                   jiraKeySet, jiraBySummary, snapOk, changedRows, calls, used>>
    /\ UNCHANGED otherVars

\* Save State, the summary, return results
\* a writer that keeps the entries of the file that the run does not have
MergedFile(f, st) ==
    IF f.text # "state" THEN saveState(st)
    ELSE saveState(
           [issueMapping |-> [k \in Keys |-> IF st.issueMapping[k] # None
                                              THEN st.issueMapping[k]
                                              ELSE f.issueMapping[k]],
            lastHashes |-> [k \in Keys |-> IF st.lastHashes[k] # NoHash
                                            THEN st.lastHashes[k]
                                            ELSE f.lastHashes[k]]])

\* fs.writeFileSync(STATE_FILE, ...): the file is replaced by the run's state
OverwrittenFile(f, st) == saveState(st)

SaveState ==
    /\ pc = "process"
    /\ queue = <<>>
    /\ file' = OverwrittenFile(file, [issueMapping |-> issueMapping,
                                      lastHashes |-> lastHashes])
    /\ hist' = [hist EXCEPT !.dirty = FALSE, !.prevFailed = results.failed,
                             !.phases = Append(@, "save"),
                             !.ended = "saved",
                             !.writes = @ + 1,
                             !.lost = {},
                             !.failedKeys = {k \in Keys : out[k].failedInc > 0},
                             !.refusedKeys = {k \in Keys :
                                                out[k].sresp = "nopath"
                                                /\ out[k].list = 1},
                             !.editedKeys = {}]
    /\ pc' = "idle"
    /\ UNCHANGED <<sheet, remote, nextId, issueMapping, lastHashes, results,
                   jiraKeySet, jiraBySummary, snapOk, changedRows, queue, out,
                   calls, used>>
    /\ UNCHANGED otherVars

\* a terminated run that would write what it holds in memory
FlushedFile(f, mapping, hashes) ==
    saveState([issueMapping |-> mapping, lastHashes |-> hashes])

\* the state file after a run that ended without Save State: nothing but
\* saveState writes it
AbandonedFile(f, mapping, hashes) == f

\* what is left of a run that ended without Save State: the process is
\* gone and its memory with it; the tracker keeps what the run did to it
Abandon(how, atStart) ==
    /\ pc' = "idle"
    /\ issueMapping' = EmptyState.issueMapping
    /\ lastHashes' = EmptyState.lastHashes
    /\ results' = NoResults
    /\ jiraKeySet' = {}
    /\ jiraBySummary' = EmptyMap
    /\ snapOk' = FALSE
    /\ changedRows' = <<>>
    /\ queue' = <<>>
    /\ out' = [k \in Keys |-> NoOut]
    /\ calls' = NoCalls
    /\ hist' = [hist EXCEPT !.dirty = TRUE,
                             !.run = IF atStart THEN @ + 1 ELSE @,
                             !.fileAtStart = IF atStart THEN file ELSE @,
                             !.writes = 0,
                             !.ended = how,
                             !.phases = <<>>,
                             !.lost = {k \in Keys : InSeq(k, changedRows)},
                             !.failedKeys = @ \ hist.editedKeys,
                             !.refusedKeys = @ \ hist.editedKeys,
                             !.editedKeys = {}]
    /\ file' = AbandonedFile(file, issueMapping, lastHashes)
    /\ UNCHANGED <<sheet, remote, nextId>>
    /\ UNCHANGED otherVars

\* the process is terminated before Save State
Crash ==
    /\ pc \notin {"idle", "cascade"}
    /\ used.faults < MaxFaults
    /\ used' = [used EXCEPT !.faults = @ + 1]
    /\ Abandon("crashed", FALSE)

\* getSheetData throws: sync() rejects and the error is printed
SheetReadFails ==
    /\ pc = "fetch"
    /\ calls.bulk = 0
    /\ used.faults < MaxFaults
    /\ used' = [used EXCEPT !.faults = @ + 1]
    /\ Abandon("sheet", FALSE)

\* const { issueMapping, userCache, lastHashes } = state, with state null:
\* a TypeError, sync() rejects before it has done anything
StateFileIsNull ==
    /\ pc = "idle"
    /\ hist.run < MaxRuns
    /\ loadState(file) = Null
    /\ used' = used
    /\ Abandon("state", TRUE)

\* Object.entries(issueMapping) with issueMapping undefined: a TypeError,
\* sync() rejects after the sheet and the snapshot were fetched
CleanupThrows ==
    /\ pc = "cleanup"
    /\ issueMapping = Undefined
    /\ used' = used
    /\ Abandon("state", FALSE)

Next ==
    \/ Crash
    \/ SheetReadFails
    \/ StateFileIsNull
    \/ CleanupThrows
    \/ \E t \in BadTexts : CorruptFile(t)
    \/ \E k \in Keys : \E r \in RowChoices(k) : EditRow(k, r)
    \/ \E i \in DOMAIN remote : HumanDelete(i)
    \/ StartRun
    \/ FetchSnapshot
    \/ Cleanup
    \/ FindChangedRows
    \/ MapMissingKeys
    \/ ProcessRow
    \/ NoParent
    \/ SaveState

Spec == Init /\ [][Next]_vars

(***************************************************************************)
(* The same program started on an empty tracker and a sheet whose second   *)
(* row carries an assignee, a due date or both, or has an 'Issue Type'     *)
(* that is none of ISSUE_TYPE_IDS.                                         *)
(***************************************************************************)
FieldChoices ==
    {<<"ann@x.io", DueDMY>>, <<"ghost@x.io", NoDate>>, <<NoEmail, DueISO>>}

FieldRows ==
    {[type |-> "Thread", summary |-> SumB, parent |-> NoKey, status |-> "DONE",
      assignee |-> c[1], due |-> c[2]] : c \in FieldChoices}

UnknownKindRow ==
    [type |-> "Epic", summary |-> SumB, parent |-> NoKey, status |-> "DONE",
     assignee |-> NoEmail, due |-> NoDate]

BodyInit ==
    /\ sheet \in {[k \in Keys |-> IF k = "K2" THEN r ELSE NoRow] :
                      r \in FieldRows \cup {UnknownKindRow}}
    /\ file = NoFile
    /\ remote = EmptyMap
    /\ nextId = Cardinality(DOMAIN remote) + 1
    /\ pc = "idle"
    /\ issueMapping = EmptyState.issueMapping
    /\ lastHashes = EmptyState.lastHashes
    /\ results = NoResults
    /\ jiraKeySet = {}
    /\ jiraBySummary = EmptyMap
    /\ snapOk = FALSE
    /\ changedRows = <<>>
    /\ queue = <<>>
    /\ out = [k \in Keys |-> NoOut]
    /\ calls = NoCalls
    /\ hist = NoHist
    /\ used = NoUsed
    /\ allJiraIssues = EmptyMap
    /\ cascadePc = "off"
    /\ cascadeQueue = <<>>
    /\ cascadeLog = EmptyMap
    /\ parked = NoParked

BodySpec == BodyInit /\ [][Next]_vars

(***************************************************************************)
(* Two sync() processes at once, as when the schedule fires while a run is *)
(* under way.  They share the sheet, the state file and the tracker; each  *)
(* has its own memory.  The process that acts uses the variables of the    *)
(* run; the memory of the other one is parked.  A process can be overtaken *)
(* wherever it awaits, so the point query of processRow is a step of its   *)
(* own here.                                                               *)
(***************************************************************************)
Switch ==
    /\ parked' = [pc |-> pc, issueMapping |-> issueMapping,
                  lastHashes |-> lastHashes, results |-> results,
                  jiraKeySet |-> jiraKeySet, jiraBySummary |-> jiraBySummary,
                  snapOk |-> snapOk, changedRows |-> changedRows,
                  queue |-> queue, out |-> out, calls |-> calls, hist |-> hist]
    /\ pc' = parked.pc
    /\ issueMapping' = parked.issueMapping
    /\ lastHashes' = parked.lastHashes
    /\ results' = parked.results
    /\ jiraKeySet' = parked.jiraKeySet
    /\ jiraBySummary' = parked.jiraBySummary
    /\ snapOk' = parked.snapOk
    /\ changedRows' = parked.changedRows
    /\ queue' = parked.queue
    /\ out' = parked.out
    /\ calls' = parked.calls
    /\ hist' = parked.hist
    /\ UNCHANGED <<sheet, file, remote, nextId, used>>
    /\ UNCHANGED cascadeVars

\* the search of processRow, up to its answer
PointQuery ==
    /\ pc = "process"
    /\ queue # <<>>
    /\ LET k == Head(queue)
           row == sheet[k]
       IN /\ ~MissingParent(row.type, row, issueMapping)
          /\ issueMapping[k] = None
          /\ out[k].query = "none"
          /\ \E qresp \in {"ok", "fail"} :
             \E found \in (IF qresp = "ok" THEN FoundChoices(remote, row)
                           ELSE {None}) :
                /\ qresp = "fail" => used.faults < MaxFaults
                /\ issueMapping' = [issueMapping EXCEPT ![k] = found]
                /\ out' = [out EXCEPT ![k].query = qresp,
                                      ![k].bound = IF found # None THEN "query"
                                                   ELSE @]
                /\ calls' = [calls EXCEPT !.query = @ + 1]
                /\ used' = [used EXCEPT !.faults = @ + B2N(qresp = "fail")]
    /\ UNCHANGED <<sheet, file, remote, nextId, pc, lastHashes, results,
                   jiraKeySet, jiraBySummary, snapOk, changedRows, queue, hist>>
    /\ UNCHANGED otherVars

RaceInit ==
    /\ sheet = [k \in Keys |->
                  IF k = "K2"
                  THEN [type |-> "Thread", summary |-> SumB, parent |-> NoKey,
                        status |-> "DONE", assignee |-> NoEmail, due |-> NoDate]
                  ELSE NoRow]
    /\ file = NoFile
    /\ remote = EmptyMap
    /\ nextId = 1
    /\ pc = "idle"
    /\ issueMapping = EmptyState.issueMapping
    /\ lastHashes = EmptyState.lastHashes
    /\ results = NoResults
    /\ jiraKeySet = {}
    /\ jiraBySummary = EmptyMap
    /\ snapOk = FALSE
    /\ changedRows = <<>>
    /\ queue = <<>>
    /\ out = [k \in Keys |-> NoOut]
    /\ calls = NoCalls
    /\ hist = NoHist
    /\ used = NoUsed
    /\ allJiraIssues = EmptyMap
    /\ cascadePc = "off"
    /\ cascadeQueue = <<>>
    /\ cascadeLog = EmptyMap
    /\ parked = NoParked

RaceNext ==
    \/ Switch
    \/ StartRun
    \/ FetchSnapshot
    \/ Cleanup
    \/ FindChangedRows
    \/ MapMissingKeys
    \/ PointQuery
    \/ ProcessRow
    \/ SaveState

RaceSpec == RaceInit /\ [][RaceNext]_vars

(***************************************************************************)
(* STATUS CASCADE, as in the versions of sync() that have it               *)
(* (src/unnamed/part_001, src/unnamed/part_000).  The tracker holds a      *)
(* JTBD, a Thread under it and two Milestones under the Thread.  The       *)
(* reconciliation may have moved one Milestone since the snapshot of the   *)
(* run start; the snapshot is fetched again before the cascade, and kept   *)
(* as it was when that query throws.                                       *)
(***************************************************************************)
CascadeChildStatuses == {"Not picked yet", "In Progress", "Done"}
CascadeAncestorStatuses == {"Not picked yet", "On track", "Done"}
WorkflowLabels == {"On track", "Not on track", "Done", "Done, BAU"}

\* toLowerCase of a status name, letter by letter
lowerChars(l) ==
    CASE l = "On track" -> <<"o", "n", " ", "t", "r", "a", "c", "k">>
      [] l = "Not on track" ->
            <<"n", "o", "t", " ", "o", "n", " ", "t", "r", "a", "c", "k">>
      [] l = "Done" -> <<"d", "o", "n", "e">>
      [] l = "Done, BAU" -> <<"d", "o", "n", "e", ",", " ", "b", "a", "u">>
      [] l = "Not picked yet" ->
            <<"n", "o", "t", " ", "p", "i", "c", "k", "e", "d", " ", "y", "e", "t">>
      [] l = "To Do" -> <<"t", "o", " ", "d", "o">>
      [] l = "In Progress" ->
            <<"i", "n", " ", "p", "r", "o", "g", "r", "e", "s", "s">>
      [] OTHER -> <<>>

\* the lists of transitions the workflow may offer, in the tracker's order
TransitionLists ==
    {<<>>} \cup {<<a>> : a \in WorkflowLabels}
           \cup {t \in WorkflowLabels \X WorkflowLabels : t[1] # t[2]}

\* find(x => x.to.name.toLowerCase() === s || x.to.name.toLowerCase().includes(s))
MatchesTarget(toName, s) ==
    lowerChars(toName) = s \/ Contains(lowerChars(toName), s)

RECURSIVE findTransition(_, _)
findTransition(transitions, s) ==
    IF transitions = <<>> THEN ""
    ELSE IF MatchesTarget(Head(transitions), s) THEN Head(transitions)
    ELSE findTransition(Tail(transitions), s)

\* setStatus(key, status) of these versions: it returns nothing.  resp is
\* "ok", "listfail" or "postfail"; the result is the status of the entity
\* afterwards
cascadeSetStatus(cur, status, transitions, resp) ==
    IF status = "" THEN cur
    ELSE LET s == lowerChars(status)
         IN IF s \in {lowerChars("To Do"), lowerChars("Not picked yet")} THEN cur
            ELSE IF resp = "listfail" THEN cur
            ELSE LET tr == findTransition(transitions, s)
                 IN IF tr = "" \/ resp = "postfail" THEN cur ELSE tr

CascadeIds == 1..4
CascadeTrackers ==
    {[i \in CascadeIds |->
        CASE i = 1 -> NewIssue(SumB, "JTBD", None, j, "K1", 0)
          [] i = 2 -> NewIssue(SumAB, "Thread", 1, t, "K2", 0)
          [] i = 3 -> NewIssue(SumAB2, "Milestone", 2, m, "human", 0)
          [] i = 4 -> NewIssue(SumB, "Milestone", 2, n, "human", 0)] :
        j \in CascadeAncestorStatuses, t \in CascadeAncestorStatuses,
        m \in CascadeChildStatuses, n \in CascadeChildStatuses}

CascadeInit ==
    /\ sheet = [k \in Keys |-> NoRow]
    /\ file = NoFile
    /\ remote \in CascadeTrackers
    /\ nextId = 5
    /\ pc = "cascade"
    /\ issueMapping = [k \in Keys |-> IF k = "K1" THEN 1 ELSE 2]
    /\ lastHashes = EmptyState.lastHashes
    /\ results = NoResults
    /\ jiraKeySet = {}
    /\ jiraBySummary = EmptyMap
    /\ snapOk = FALSE
    /\ changedRows = <<>>
    /\ queue = <<>>
    /\ out = [k \in Keys |-> NoOut]
    /\ calls = NoCalls
    /\ hist = NoHist
    /\ used = NoUsed
    /\ allJiraIssues = remote
    /\ cascadePc = "reconcile"
    /\ cascadeQueue = <<>>
    /\ cascadeLog = EmptyMap
    /\ parked = NoParked

\* the ids of a snapshot of one kind, in the order of the query's results
RECURSIVE IdsOfType(_, _, _)
IdsOfType(issues, type, from) ==
    IF from > MaxIssues + 1 THEN <<>>
    ELSE IF from \in DOMAIN issues /\ issues[from].type = type
         THEN <<from>> \o IdsOfType(issues, type, from + 1)
         ELSE IdsOfType(issues, type, from + 1)

\* the reconciliation of the run moved one Milestone, or moved none
CascadeReconcile ==
    /\ cascadePc = "reconcile"
    /\ \/ remote' = remote
       \/ \E i \in DOMAIN remote : \E st \in CascadeChildStatuses :
             /\ remote[i].type = "Milestone"
             /\ st # remote[i].status
             /\ remote' = [remote EXCEPT ![i].status = st]
    /\ cascadePc' = "refresh"
    /\ UNCHANGED <<sheet, file, nextId, runVars, hist, used, allJiraIssues,
                   cascadeQueue, cascadeLog>>
    /\ UNCHANGED parked

\* Refresh Jira issues for cascade: try { allJiraIssues = ... } catch (e) { }
CascadeRefresh ==
    /\ cascadePc = "refresh"
    /\ \/ /\ allJiraIssues' = remote
          /\ used' = used
       \/ /\ used.faults < MaxFaults
          /\ allJiraIssues' = allJiraIssues
          /\ used' = [used EXCEPT !.faults = @ + 1]
    /\ cascadeQueue' = IdsOfType(allJiraIssues', "Thread", 1)
                       \o IdsOfType(allJiraIssues', "JTBD", 1)
    /\ cascadePc' = "pass"
    /\ UNCHANGED <<sheet, file, remote, nextId, runVars, hist, cascadeLog>>
    /\ UNCHANGED parked

\* children, allDone, anyStarted and current of one ancestor, from the
\* snapshot, and the target the cascade decides on ("" for none)
CascadeChildren(issues, a) ==
    {c \in DOMAIN issues : issues[c].parent = a
                           /\ Level(issues[c].type) = Level(issues[a].type) + 1}

CascadeTarget(issues, a) ==
    LET children == CascadeChildren(issues, a)
        allDone == \A c \in children : issues[c].status = "Done"
        anyStarted == \E c \in children :
                         issues[c].status \in {"Done", "On track", "In Progress"}
        current == issues[a].status
    IN IF children = {} THEN ""
       ELSE IF allDone /\ current # "Done" THEN "Done"
       ELSE IF anyStarted /\ current \in {"To Do", "Not picked yet"} THEN "On track"
       ELSE ""

\* one turn of a cascade loop for the ancestor a
CascadeVisit(a) ==
    LET target == CascadeTarget(allJiraIssues, a)
    IN \E transitions \in TransitionLists, resp \in {"ok", "listfail", "postfail"} :
          /\ target = "" => (transitions = <<>> /\ resp = "ok")
          /\ resp # "ok" => used.faults < MaxFaults
          /\ LET new == cascadeSetStatus(remote[a].status, target, transitions, resp)
             IN /\ remote' = [remote EXCEPT ![a].status = new]
                /\ cascadeLog' =
                      [i \in DOMAIN cascadeLog \cup {a} |->
                          IF i = a
                          THEN [target |-> target,
                                before |-> remote[a].status,
                                after |-> new,
                                seen |-> [c \in CascadeChildren(allJiraIssues, a) |->
                                             allJiraIssues[c].status],
                                live |-> [c \in CascadeChildren(allJiraIssues, a) |->
                                             remote[c].status],
                                resp |-> resp,
                                at |-> Cardinality(DOMAIN cascadeLog) + 1]
                          ELSE cascadeLog[i]]
          /\ results' = [results EXCEPT !.cascade = @ + B2N(target # "")]
          /\ used' = [used EXCEPT !.faults = @ + B2N(resp # "ok")]
          /\ cascadeQueue' = Tail(cascadeQueue)
          /\ UNCHANGED <<sheet, file, nextId, pc, issueMapping, lastHashes,
                         jiraKeySet, jiraBySummary, snapOk, changedRows, queue,
                         out, calls, hist, allJiraIssues, cascadePc>>
          /\ UNCHANGED parked

\* Thread <- Milestone
CascadeThreads ==
    /\ cascadePc = "pass"
    /\ cascadeQueue # <<>>
    /\ allJiraIssues[Head(cascadeQueue)].type = "Thread"
    /\ CascadeVisit(Head(cascadeQueue))

\* JTBD <- Thread
CascadeJtbds ==
    /\ cascadePc = "pass"
    /\ cascadeQueue # <<>>
    /\ allJiraIssues[Head(cascadeQueue)].type = "JTBD"
    /\ CascadeVisit(Head(cascadeQueue))

\* Save State after the cascade
CascadeSave ==
    /\ cascadePc = "pass"
    /\ cascadeQueue = <<>>
    /\ file' = saveState([issueMapping |-> issueMapping, lastHashes |-> lastHashes])
    /\ cascadePc' = "done"
    /\ UNCHANGED <<sheet, remote, nextId, runVars, hist, used, allJiraIssues,
                   cascadeQueue, cascadeLog>>
    /\ UNCHANGED parked

CascadeNext ==
    \/ CascadeReconcile
    \/ CascadeRefresh
    \/ CascadeThreads
    \/ CascadeJtbds
    \/ CascadeSave

CascadeSpec == CascadeInit /\ [][CascadeNext]_vars

(***************************************************************************)
(* Vocabulary of the properties.                                           *)
(***************************************************************************)
Processing == pc = "process"
RunEnd == pc = "process" /\ queue = <<>>
Changed(k) == InSeq(k, changedRows)
Processed(k) == out[k].at > 0
CreateCalled(k) == out[k].path = "create"
\* the snapshot of the run holds an entity norm-equal to the row
TwinInSnapshot(k) == norm(sheet[k].summary) \in DOMAIN jiraBySummary
\* the status step of the row was asked for the status the entity had
StatusIsCurrent(k) ==
    /\ out[k].entity = "ok"
    /\ validMatch(statusToSet(sheet[k])) # {}
    /\ lowerLabel(out[k].cur) = lowerLabel(statusToSet(sheet[k]))

\* the stored hash of a key as it was after the cleanup of the run
HashAfterCleanup(k) ==
    IF k \in hist.cleanedKeys THEN NoHash ELSE loadState(file).lastHashes[k]

C2_HashOnlyOnFullSuccess ==
    Processing =>
        /\ \A k \in Keys :
              /\ (Changed(k) /\ lastHashes[k] = rowHash(sheet[k]))
                 => (out[k].entity = "ok" /\ out[k].status = "ok")
              /\ (Changed(k) /\ ~(out[k].entity = "ok" /\ out[k].status = "ok"))
                 => lastHashes[k] = HashAfterCleanup(k)
        /\ results.created + results.updated =
              Cardinality({k \in Keys : out[k].entity = "ok" /\ out[k].status = "ok"})
        /\ results.failed >=
              Cardinality({k \in Keys : out[k].entity = "ok" /\ out[k].status = "fail"})

\* an entity call succeeded and its status step failed
C2_Witness ==
    /\ Processing
    /\ \E k \in Keys : out[k].entity = "ok" /\ out[k].status = "fail"
    /\ \E k \in Keys : out[k].entity = "ok" /\ out[k].status = "ok"
                       /\ lastHashes[k] = rowHash(sheet[k])

(***************************************************************************)
(* C3.  Rows are processed level by level (JTBD, Thread, Milestone); the   *)
(* id a create returns is in issueMapping at once; a child created after   *)
(* its parent was created in the same run has that new id as its parent.   *)
(***************************************************************************)
C3_LevelOrderAndParentId ==
    Processing =>
        /\ \A j, k \in Keys :
              (Changed(j) /\ Changed(k)
               /\ Level(sheet[j].type) < Level(sheet[k].type) /\ Processed(k))
              => (Processed(j) /\ out[j].at < out[k].at)
        /\ \A k \in Keys :
              (CreateCalled(k) /\ out[k].entity = "ok")
              => /\ issueMapping[k] = out[k].id
                 /\ out[k].id \in DOMAIN remote
                 /\ remote[out[k].id].by = k
                 /\ remote[out[k].id].run = hist.run
        /\ \A p, k \in Keys :
              (/\ CreateCalled(k) /\ out[k].entity = "ok"
               /\ CreateCalled(p) /\ out[p].entity = "ok"
               /\ sheet[k].type # "JTBD" /\ sheet[k].parent = p
               /\ out[p].at < out[k].at)
              => remote[out[k].id].parent = out[p].id

\* a child that comes first in the sheet is created after its parent, in the
\* same run, with the parent's new id
C3_Witness ==
    /\ Processing
    /\ CreateCalled("K1") /\ out["K1"].entity = "ok"
    /\ CreateCalled("K2") /\ out["K2"].entity = "ok"
    /\ sheet["K1"].parent = "K2"
    /\ remote[out["K1"].id].parent = out["K2"].id

(***************************************************************************)
(* C4.  As claimed: a Thread or Milestone whose Parent has no mapping when *)
(* it is processed gets no create call, is counted as failed and keeps its *)
(* stored fingerprint; no child entity is created without a parent.        *)
(***************************************************************************)
C4_NoChildWithoutParent ==
    Processing =>
        /\ \A k \in Keys :
              (Processed(k) /\ sheet[k].type \in {"Thread", "Milestone"}
               /\ out[k].parentRef = None)
              => /\ ~CreateCalled(k)
                 /\ out[k].failedInc = 1
                 /\ lastHashes[k] = HashAfterCleanup(k)
        /\ \A i \in DOMAIN remote :
              (remote[i].by # "human" /\ remote[i].type \in {"Thread", "Milestone"})
              => remote[i].parent # None

C6_OrphanIsRecreated ==
    \A k \in hist.orphans :
        /\ pc = "select" => (issueMapping[k] = None /\ lastHashes[k] = NoHash)
        /\ (pc \in {"map", "process"} /\ HasKey(k)) => Changed(k)
        /\ (RunEnd /\ HasKey(k)) => (out[k].bound # "none" \/ CreateCalled(k))

(***************************************************************************)
(* C6, amended.  ... and in that run is bound by name or gets a create     *)
(* call, unless it is a Milestone whose Parent has no mapping when it is   *)
(* processed: then it is counted as failed and no call is made for it.     *)
(***************************************************************************)
C6_OrphanIsReconsidered ==
    \A k \in hist.orphans :
        /\ pc = "select" => (issueMapping[k] = None /\ lastHashes[k] = NoHash)
        /\ (pc \in {"map", "process"} /\ HasKey(k)) => Changed(k)
        /\ (RunEnd /\ HasKey(k))
           => \/ out[k].bound # "none" /\ ~CreateCalled(k)
              \/ out[k].bound = "none" /\ CreateCalled(k)
              \/ /\ out[k].bound = "none"
                 /\ out[k].path = "noparent"
                 /\ sheet[k].type = "Milestone"
                 /\ Lookup(issueMapping, sheet[k].parent) = None
                 /\ out[k].failedInc = 1

\* a key whose entity was deleted, whose row is as the file remembers it,
\* and which is created again in this run
C6_Witness ==
    /\ RunEnd
    /\ \E k \in hist.orphans :
          /\ HasKey(k)
          /\ loadState(file).lastHashes[k] = rowHash(sheet[k])
          /\ CreateCalled(k) /\ out[k].entity = "ok"
          /\ issueMapping[k] # loadState(file).issueMapping[k]

(***************************************************************************)
(* C7.  Right after the cleanup loop every remote id in issueMapping is an *)
(* id of the snapshot fetched in this run.                                 *)
(***************************************************************************)
C7_MappingWithinSnapshot ==
    pc = "select" =>
        \A k \in Keys : issueMapping[k] # None => issueMapping[k] \in jiraKeySet

\* the cleanup removed one mapping and kept another
C7_Witness ==
    /\ pc = "select"
    /\ hist.cleanedKeys # {}
    /\ \E k \in Keys : issueMapping[k] # None

(***************************************************************************)
(* C8.  As claimed: every entity the engine created has a parent exactly   *)
(* one level above its own kind, and a created JTBD has none.              *)
(***************************************************************************)
C8_ParentOneLevelAbove ==
    \A i \in DOMAIN remote :
        remote[i].by # "human" =>
            IF remote[i].type = "JTBD" THEN remote[i].parent = None
            ELSE /\ remote[i].parent # None
                 /\ remote[i].parent \in DOMAIN remote
                    => Level(remote[remote[i].parent].type) = Level(remote[i].type) - 1

(***************************************************************************)
(* C9.  As claimed: every changed record gets its create or update call or *)
(* the no-parent outcome, and every record with a failed point query,      *)
(* create, update or status step adds exactly one to the failed count.     *)
(***************************************************************************)
C9_EveryFailureCountedOnce ==
    RunEnd =>
        /\ \A k \in Keys :
              Changed(k) => out[k].path \in {"create", "update", "noparent"}
        /\ results.failed =
              Cardinality({k \in Keys : \/ out[k].query = "fail"
                                        \/ out[k].entity = "fail"
                                        \/ out[k].status = "fail"
                                        \/ out[k].path = "noparent"})

(***************************************************************************)
(* C9, amended.  Every changed record gets its create or update call or    *)
(* the no-parent outcome whatever failed before it; a record whose create, *)
(* update or status step failed (or that has no parent) adds exactly one   *)
(* to the failed count; a failed point query alone adds nothing.           *)
(***************************************************************************)
C9_FailuresAreIsolated ==
    Processing =>
        /\ \A k \in Keys :
              (Changed(k) /\ ~InSeq(k, queue))
              => out[k].path \in {"create", "update", "noparent"}
        /\ \A k \in Keys : InSeq(k, queue) => Changed(k) /\ ~Processed(k)
        /\ results.failed =
              Cardinality({k \in Keys : \/ out[k].entity = "fail"
                                        \/ out[k].status = "fail"
                                        \/ out[k].path = "noparent"})

\* the first record's call failed and the second record was still processed
C9_Witness ==
    /\ RunEnd
    /\ \E j, k \in Keys :
          /\ out[j].at > 0 /\ out[j].at < out[k].at
          /\ out[j].entity = "fail"
          /\ out[k].entity = "ok"
          /\ results.failed = 1

(***************************************************************************)
(* C10.  As claimed: setStatus with a recognised status that equals the    *)
(* entity's current status, case ignored, makes no list-transitions and no *)
(* execute-transition call and returns success.                            *)
(***************************************************************************)
C10_CurrentStatusIsNoOp ==
    Processing =>
        \A k \in Keys :
            StatusIsCurrent(k)
            => (out[k].list = 0 /\ out[k].post = 0 /\ out[k].status = "ok")

(***************************************************************************)
(* C10, amended.  ... makes no list-transitions and no execute-transition  *)
(* call, and returns success when its read of the current status returned  *)
(* (failure when that read threw).                                         *)
(***************************************************************************)
C10_CurrentStatusIsNoOpWhenRead ==
    Processing =>
        \A k \in Keys :
            StatusIsCurrent(k)
            => /\ out[k].read = 1 /\ out[k].list = 0 /\ out[k].post = 0
               /\ out[k].sresp # "readfail" => out[k].status = "ok"
               /\ out[k].sresp = "readfail" => out[k].status = "fail"

\* an entity already Done is asked to go to DONE
C10_Witness ==
    /\ Processing
    /\ \E k \in Keys :
          /\ StatusIsCurrent(k)
          /\ out[k].cur = "Done" /\ sheet[k].status = "DONE"
          /\ out[k].status = "ok"

(***************************************************************************)
(* C11.  As claimed: an ancestor the cascade visits, whose children are    *)
(* all Done while it is not, ends in Done (or stays where it was when the  *)
(* tracker refuses); otherwise, if a child is Done, On track or In         *)
(* Progress and the ancestor has not started, it ends in On track (or      *)
(* stays), never in Done; otherwise it is not touched.                     *)
(***************************************************************************)
C11_CascadeMovesToTargetOnly ==
    \A a \in DOMAIN cascadeLog :
        LET e == cascadeLog[a]
            allDone == \A c \in DOMAIN e.seen : e.seen[c] = "Done"
            anyStarted == \E c \in DOMAIN e.seen :
                             e.seen[c] \in {"Done", "On track", "In Progress"}
        IN IF DOMAIN e.seen = {} THEN e.after = e.before
           ELSE IF allDone /\ e.before # "Done"
                THEN e.after \in {"Done", e.before}
           ELSE IF anyStarted /\ e.before \in {"To Do", "Not picked yet"}
                THEN e.after \in {"On track", e.before}
           ELSE e.after = e.before

(***************************************************************************)
(* C12.  As claimed: whatever calls fail and whichever runs are terminated *)
(* before saving, the tracker never holds two entities that the engine     *)
(* created for one external key, and at the end of a run a mapping the     *)
(* state file held at the run's start, whose entity still exists, is       *)
(* still in issueMapping.                                                  *)
(***************************************************************************)
C12_NoDuplicateNoLostMapping ==
    /\ \A k \in Keys : Cardinality({i \in DOMAIN remote : remote[i].by = k}) <= 1
    /\ RunEnd =>
          \A k \in Keys :
              LET m == loadState(hist.fileAtStart).issueMapping[k]
              IN (m # None /\ m \in DOMAIN remote) => issueMapping[k] = m

C14_AnyStateFileLoads ==
    /\ pc = "fetch" => (issueMapping # Undefined /\ lastHashes # Undefined)
    /\ hist.ended # "state"

\* a run past its bulk query, whose bulk query failed
AfterFailedSnapshot ==
    /\ pc \in {"cleanup", "select", "map", "process"}
    /\ calls.bulk = 1
    /\ ~snapOk

(***************************************************************************)
(* C15.  As claimed: after a failed bulk query the run goes on with an     *)
(* empty snapshot, binds no record through the snapshot, and every record  *)
(* of the changed set that it processes is point-queried and, when the     *)
(* query binds nothing, created; a state in which the bulk query has       *)
(* failed is a state of a run under way or of a run that saved.            *)
(***************************************************************************)
C15_FailedSnapshotAllQueried ==
    /\ (calls.bulk = 1 /\ ~snapOk)
       => (AfterFailedSnapshot \/ (pc = "idle" /\ hist.ended = "saved"))
    /\ AfterFailedSnapshot =>
          /\ jiraKeySet = {}
          /\ jiraBySummary = EmptyMap
          /\ \A k \in Keys :
                /\ out[k].bound # "snapshot"
                /\ Processed(k) =>
                      /\ Changed(k)
                      /\ out[k].query \in {"ok", "fail"}
                      /\ out[k].bound = "none" => CreateCalled(k)

(***************************************************************************)
(* C15 (amended).  The same, except that a Milestone whose Parent has no   *)
(* mapping when its turn comes is counted as failed without a point query  *)
(* and without a create.                                                   *)
(***************************************************************************)
C15_FailedSnapshotQueriedUnlessNoParent ==
    /\ (calls.bulk = 1 /\ ~snapOk)
       => (AfterFailedSnapshot \/ (pc = "idle" /\ hist.ended = "saved"))
    /\ AfterFailedSnapshot =>
          /\ jiraKeySet = {}
          /\ jiraBySummary = EmptyMap
          /\ \A k \in Keys :
                /\ out[k].bound # "snapshot"
                /\ Processed(k) =>
                      /\ Changed(k)
                      /\ \/ /\ out[k].path = "noparent"
                            /\ sheet[k].type = "Milestone"
                            /\ Lookup(issueMapping, sheet[k].parent) = None
                            /\ out[k].query = "none"
                            /\ out[k].failedInc = 1
                         \/ /\ out[k].path \in {"create", "update"}
                            /\ out[k].query \in {"ok", "fail"}
                            /\ out[k].bound = "none" => CreateCalled(k)

\* a run that saved after its bulk query failed, having point-queried and
\* created a record and having turned a Milestone away for want of a parent
C15_Witness ==
    /\ pc = "idle"
    /\ hist.ended = "saved"
    /\ calls.bulk = 1
    /\ ~snapOk
    /\ \E k \in Keys : CreateCalled(k) /\ out[k].query = "ok" /\ out[k].entity = "ok"
    /\ \E k \in Keys : out[k].path = "noparent"

(***************************************************************************)
(* C16.  A record that the last saved run counted as failed, and whose row *)
(* was not edited since, is in the changed set of every later run until a  *)
(* run saves again.                                                        *)
(***************************************************************************)
C16_FailedIsRetried ==
    pc \in {"map", "process"}
       => \A k \in hist.failedKeys \ hist.editedKeys : Changed(k)

\* the run after a saved run in which a record that has an entity failed
\* and a Milestone had no parent: both are in the changed set again
C16_Witness ==
    /\ pc = "process"
    /\ hist.run = 2
    /\ loadState(hist.fileAtStart).issueMapping # EmptyState.issueMapping
    /\ \E k \in hist.failedKeys \ hist.editedKeys :
          /\ Changed(k)
          /\ loadState(hist.fileAtStart).issueMapping[k] # None
    /\ \E k \in hist.failedKeys \ hist.editedKeys :
          /\ Changed(k)
          /\ sheet[k].type = "Milestone"
          /\ loadState(hist.fileAtStart).issueMapping[k] = None

(***************************************************************************)
(* C17.  As claimed: a run that completes has gone through its phases in   *)
(* this order: source records, remote snapshot, cleaning of stale          *)
(* mappings, change set, identities, reconciliation, status cascade,       *)
(* saving of the state.                                                    *)
(***************************************************************************)
C17_PhasesInOrderWithCascade ==
    (pc = "idle" /\ hist.ended = "saved")
       => hist.phases = <<"source", "snapshot", "clean", "changes",
                          "identities", "reconcile", "cascade", "save">>

\* the sheet has no row: getSheetData returns []
BlankSheet == \A k \in Keys : sheet[k] = NoRow

(***************************************************************************)
(* C18.  As claimed: a run that finds the sheet blank, or cannot read it,  *)
(* makes no call to the tracker, removes no mapping and no fingerprint,    *)
(* and ends without writing the state file.                                *)
(***************************************************************************)
C18_BlankOrUnreadableSourceIsFatal ==
    /\ (BlankSheet /\ pc \notin {"idle", "cascade"}) =>
          /\ calls = NoCalls
          /\ issueMapping = loadState(hist.fileAtStart).issueMapping
          /\ lastHashes = loadState(hist.fileAtStart).lastHashes
    /\ (BlankSheet /\ pc = "idle" /\ hist.run > 0) =>
          /\ hist.ended # "saved"
          /\ file = hist.fileAtStart
    /\ hist.ended = "sheet" => file = hist.fileAtStart

\* the assignee cell of the row is filled and resolves to no account
UnresolvedAssignee(k) ==
    sheet[k].assignee # NoEmail /\ getUserId(sheet[k].assignee) = None
\* the due date cell of the row is filled and is not a DD/MM/YYYY date
BadDueDate(k) == sheet[k].due # NoDate /\ convertDate(sheet[k].due) = NoDate

(***************************************************************************)
(* C19.  As claimed: a record that processRow handled, whose assignee mail *)
(* resolves to no account or whose due date is not in the accepted format, *)
(* is counted as failed and its fingerprint is not stored.                 *)
(***************************************************************************)
C19_BadAssigneeOrDateFails ==
    \A k \in Keys :
        (out[k].path \in {"create", "update"}
            /\ (UnresolvedAssignee(k) \/ BadDueDate(k)))
        => (out[k].failedInc > 0 /\ ~out[k].hashSet
            /\ lastHashes[k] # rowHash(sheet[k]))

(***************************************************************************)
(* C20.  As claimed: the cascade visits every Thread before any JTBD, and  *)
(* the status of a Thread child that the visit of a JTBD decides from is   *)
(* the status the Thread pass left that Thread in.                         *)
(***************************************************************************)
C20_JtbdPassSeesThreadPass ==
    \A a \in DOMAIN cascadeLog :
        allJiraIssues[a].type = "JTBD" =>
            \A c \in DOMAIN cascadeLog[a].seen :
                /\ c \in DOMAIN cascadeLog
                /\ cascadeLog[c].at < cascadeLog[a].at
                /\ cascadeLog[a].seen[c] = cascadeLog[c].after

(***************************************************************************)
(* C21.  As claimed: the statuses of the Milestones that the visit of a    *)
(* Thread decides from are the statuses the reconciliation of the same run *)
(* left them in.                                                           *)
(***************************************************************************)
C21_CascadeSeesReconciledStatuses ==
    \A a \in DOMAIN cascadeLog :
        allJiraIssues[a].type = "Thread" =>
            \A c \in DOMAIN cascadeLog[a].seen :
                cascadeLog[a].seen[c] = cascadeLog[a].live[c]

\* the row's fingerprint equals the stored one after the cleanup of the run
FingerprintUnchanged(k) ==
    /\ HasKey(k)
    /\ k \notin hist.cleanedKeys
    /\ loadState(hist.fileAtStart).lastHashes[k] = rowHash(sheet[k])

(***************************************************************************)
(* C22.  A record whose fingerprint equals the stored one after cleanup is *)
(* not in the changed set; the run sends no point query, create, update,   *)
(* status read, transition list or transition for it, leaves its mapping   *)
(* and its fingerprint as they were loaded, and counts it once as skipped. *)
(***************************************************************************)
C22_UnchangedIsSkippedUntouched ==
    pc \in {"map", "process"} =>
        /\ \A k \in Keys :
              FingerprintUnchanged(k) =>
                 /\ ~Changed(k)
                 /\ out[k].path = "skipped"
                 /\ ~Processed(k)
                 /\ out[k].query = "none" /\ out[k].entity = "none"
                 /\ out[k].status = "none" /\ out[k].bound = "none"
                 /\ out[k].read = 0 /\ out[k].list = 0 /\ out[k].post = 0
                 /\ out[k].failedInc = 0
                 /\ issueMapping[k] = loadState(hist.fileAtStart).issueMapping[k]
                 /\ lastHashes[k] = loadState(hist.fileAtStart).lastHashes[k]
        /\ results.skipped = Cardinality({k \in Keys : FingerprintUnchanged(k)})

\* a run that skipped one record while it created or updated the entity of
\* another, with every record handled
C22_Witness ==
    /\ RunEnd
    /\ \E k \in Keys : FingerprintUnchanged(k) /\ out[k].path = "skipped"
    /\ \E k \in Keys : Processed(k) /\ out[k].entity = "ok"
    /\ results.skipped = 1

\* the status step of the record was taken with a label that is filled and
\* is none of VALID_STATUSES, whatever the case
UnrecognisedLabel(k) ==
    /\ out[k].path \in {"create", "update"}
    /\ out[k].entity = "ok"
    /\ statusToSet(sheet[k]) # ""
    /\ \A vs \in VALID_STATUSES :
          lowerLabel(vs) # lowerLabel(statusToSet(sheet[k]))

(***************************************************************************)
(* C23.  While the records are processed: a record whose status label is   *)
(* filled and is not one of the recognised labels, compared without case,  *)
(* has its status step fail without a status read, a transition list or a  *)
(* transition; it is counted once as failed, its entity keeps its status   *)
(* and its fingerprint is not stored.                                      *)
(***************************************************************************)
C23_UnrecognisedLabelFailsWithoutCalls ==
    pc = "process" =>
        \A k \in Keys :
            UnrecognisedLabel(k) =>
                /\ out[k].status = "fail"
                /\ out[k].read = 0 /\ out[k].list = 0 /\ out[k].post = 0
                /\ out[k].failedInc = 1
                /\ ~out[k].hashSet
                /\ lastHashes[k] # rowHash(sheet[k])

\* a record with the label 'Bogus' whose entity was created and whose
\* status step was refused, in a run without a failed call
C23_Witness ==
    /\ RunEnd
    /\ used.faults = 0
    /\ \E k \in Keys :
          /\ UnrecognisedLabel(k)
          /\ sheet[k].status = "Bogus"
          /\ CreateCalled(k)
          /\ out[k].status = "fail"
          /\ results.failed = 1

\* the status step of the record listed the transitions and none of them
\* leads to the target
NoTransitionToTarget(k) == out[k].sresp = "nopath" /\ out[k].list = 1

(***************************************************************************)
(* C24.  While the records are processed: when no transition offered for   *)
(* the entity leads to the target, compared without case, the status step  *)
(* executes no transition and fails, and the record is counted once as     *)
(* failed; no record has more than one status read, one transition list    *)
(* and one executed transition in a run; and when the last record has had  *)
(* its turn, every changed record of a recognised kind has had one.        *)
(***************************************************************************)
C24_NoTransitionNoRetry ==
    pc = "process" =>
        /\ \A k \in Keys :
              /\ NoTransitionToTarget(k) =>
                    /\ out[k].post = 0
                    /\ out[k].status = "fail"
                    /\ out[k].failedInc = 1
                    /\ ~out[k].hashSet
              /\ out[k].read <= 1 /\ out[k].list <= 1 /\ out[k].post <= 1
        /\ calls.post <= Cardinality({k \in Keys : Processed(k)})
        /\ RunEnd =>
              \A k \in Keys :
                  (Changed(k) /\ sheet[k].type \in ISSUE_TYPE_IDS) => Processed(k)

\* the first of two changed records found no transition to its target, and
\* the second was handled after it
C24_Witness ==
    /\ RunEnd
    /\ \E k, j \in Keys :
          /\ NoTransitionToTarget(k)
          /\ out[k].post = 0
          /\ out[j].at > out[k].at
          /\ out[j].entity = "ok"

\* the tracker holds an entity, made by people, whose summary holds the
\* row's text without being norm-equal to it
NearTwinExists(k) ==
    \E i \in DOMAIN remote :
        /\ remote[i].by = "human"
        /\ Contains(norm(remote[i].summary), norm(sheet[k].summary))
        /\ norm(remote[i].summary) # norm(sheet[k].summary)

(***************************************************************************)
(* C25.  While the records are processed: a point query is sent only for a *)
(* record that had no mapping and that the snapshot did not bind, once per *)
(* record; a record is bound by its point query only to an entity whose    *)
(* summary was norm-equal to the row's Summary; a record whose point query *)
(* failed, or returned no such entity, gets a create call.                 *)
(***************************************************************************)
C25_PointQueryOnceExactOnly ==
    Processing =>
        /\ \A k \in Keys :
              /\ out[k].query # "none" =>
                    /\ Processed(k)
                    /\ out[k].unmapped
                    /\ out[k].bound # "snapshot"
              /\ out[k].bound = "query" =>
                    /\ out[k].query = "ok"
                    /\ out[k].id \in out[k].twins
                    /\ ~CreateCalled(k)
              /\ (out[k].query = "fail"
                    \/ (out[k].query = "ok" /\ out[k].bound = "none"))
                 => CreateCalled(k)
        /\ calls.query = Cardinality({k \in Keys : out[k].query # "none"})

\* the point query of a record returned nothing norm-equal while the
\* tracker held an entity whose summary holds the row's text: the record
\* was created
C25_Witness ==
    /\ Processing
    /\ \E k \in Keys :
          /\ out[k].query = "ok"
          /\ out[k].bound = "none"
          /\ CreateCalled(k) /\ out[k].entity = "ok"
          /\ NearTwinExists(k)

(***************************************************************************)
(* C26.  As claimed: a run that has read the sheet and whose calls all     *)
(* return goes on to the end: its cleanup finds maps it can walk, every    *)
(* changed record has one turn at most, and when the last record has had   *)
(* its turn the counts are those of the records handled.                   *)
(***************************************************************************)
C26_RunGoesOnToSave ==
    /\ pc = "cleanup" => (issueMapping # Undefined /\ lastHashes # Undefined)
    /\ Processing =>
          /\ \A k \in Keys : Processed(k) => (Changed(k) /\ ~InSeq(k, queue))
          /\ \A i, j \in 1..Len(queue) : queue[i] = queue[j] => i = j
          /\ hist.steps <= Len(changedRows)
    /\ RunEnd =>
          results.created + results.updated + results.failed
             = Cardinality({k \in Keys : Processed(k)})

\* both processes have completed a run
BothSaved ==
    /\ pc = "idle" /\ hist.ended = "saved"
    /\ parked.pc = "idle" /\ parked.hist.ended = "saved"

(***************************************************************************)
(* C27.  When both of two processes have completed a run, the state file   *)
(* is the state of one of them, whole: what the process that wrote last    *)
(* had in memory, with nothing of what the other one wrote.                *)
(***************************************************************************)
C27_LastSaverOverwrites ==
    BothSaved =>
        file \in {saveState([issueMapping |-> issueMapping,
                             lastHashes |-> lastHashes]),
                  saveState([issueMapping |-> parked.issueMapping,
                             lastHashes |-> parked.lastHashes])}

\* two first runs that both loaded the state before either saved: each
\* created an entity for K2, and the file holds the mapping of one of them
C27_Witness ==
    /\ BothSaved
    /\ hist.run = 1 /\ parked.hist.run = 1
    /\ hist.fileAtStart = NoFile /\ parked.hist.fileAtStart = NoFile
    /\ Cardinality({i \in DOMAIN remote : remote[i].by = "K2"}) = 2
    /\ issueMapping["K2"] # None /\ parked.issueMapping["K2"] # None
    /\ issueMapping["K2"] # parked.issueMapping["K2"]
    /\ used.faults = 0
    /\ \/ file.issueMapping["K2"] # issueMapping["K2"]
       \/ file.issueMapping["K2"] # parked.issueMapping["K2"]

(***************************************************************************)
(* C28.  As claimed: when the last record of a run has had its turn, the   *)
(* counts created, updated, skipped and failed add up to the number of     *)
(* rows of the sheet that have a key, and every such row is in exactly one *)
(* of them.                                                                *)
(***************************************************************************)
C28_EveryKeyedRowCountedOnce ==
    RunEnd =>
        /\ results.created + results.updated + results.skipped + results.failed
              = Cardinality({k \in Keys : HasKey(k)})
        /\ \A k \in Keys :
              HasKey(k) => (out[k].path = "skipped" \/ Processed(k))

\* the last saved run created the entity m for the record and counted the
\* record as failed; the file the run started from holds m for the record,
\* and the entity is still at the tracker
CreatedThenFailed(k, m) ==
    /\ k \in hist.failedKeys
    /\ m # None
    /\ loadState(hist.fileAtStart).issueMapping[k] = m
    /\ m \in DOMAIN remote
    /\ remote[m].by = k
    /\ remote[m].run = hist.run - 1

(***************************************************************************)
(* C29.  As claimed: when a create succeeded and the status step after it  *)
(* failed, the new id is in issueMapping and the fingerprint is not        *)
(* stored, and the file written at the end of the run holds the one and    *)
(* not the other; the next run handles the record by an update of that     *)
(* entity and sends no create for it.                                      *)
(***************************************************************************)
C29_CreatedThenFailedIsUpdatedNext ==
    /\ \A k \in Keys :
          (CreateCalled(k) /\ out[k].entity = "ok" /\ out[k].status = "fail")
          => /\ issueMapping[k] = out[k].id
             /\ ~out[k].hashSet
             /\ (pc = "idle" /\ hist.ended = "saved" /\ file.text = "state")
                => /\ file.issueMapping[k] = out[k].id
                   /\ file.lastHashes[k] = lastHashes[k]
    /\ Processing =>
          \A k \in Keys : \A m \in DOMAIN remote :
              (CreatedThenFailed(k, m) /\ Processed(k)
                 /\ out[k].path \in {"create", "update"})
              => /\ out[k].path = "update"
                 /\ out[k].id = m

\* the keys the state file of the start of the run holds a remote id for
StoredKeys == {k \in Keys : loadState(hist.fileAtStart).issueMapping[k] # None}

(***************************************************************************)
(* C30.  In a run whose bulk query failed, the cleanup loop removes every  *)
(* mapping the run loaded and the fingerprint stored with it, whether or   *)
(* not the entity is still at the tracker, and counts each as cleaned;     *)
(* every row of the sheet that has a key is then in the changed set.       *)
(***************************************************************************)
C30_FailedSnapshotWipesState ==
    (pc \in {"select", "map", "process"} /\ calls.bulk = 1 /\ ~snapOk) =>
        /\ hist.cleanedKeys = StoredKeys
        /\ results.cleaned = Cardinality(StoredKeys)
        /\ pc = "select" =>
              \A k \in Keys : issueMapping[k] = None /\ lastHashes[k] = NoHash
        /\ pc \in {"map", "process"} =>
              \A k \in Keys : HasKey(k) => Changed(k)

\* the bulk query failed in a run that had loaded the mapping and the
\* current fingerprint of a record whose entity is still at the tracker:
\* the mapping is gone and the record is in the changed set
C30_Witness ==
    /\ pc = "map"
    /\ calls.bulk = 1 /\ ~snapOk
    /\ \E k \in StoredKeys :
          /\ loadState(hist.fileAtStart).issueMapping[k] \in DOMAIN remote
          /\ loadState(hist.fileAtStart).lastHashes[k] = rowHash(sheet[k])
          /\ issueMapping[k] = None
          /\ Changed(k)

\* the record had a mapping and a fingerprint when the run's cleanup was
\* over, and its row differs from that fingerprint in the Parent cell only
ParentEditOnly(k) ==
    /\ HasKey(k)
    /\ k \notin hist.cleanedKeys
    /\ loadState(hist.fileAtStart).issueMapping[k] # None
    /\ \E p \in (Keys \cup {NoKey}) \ {sheet[k].parent} :
          loadState(hist.fileAtStart).lastHashes[k]
              = rowHash([sheet[k] EXCEPT !.parent = p])

\* the parent of the record's entity is the entity its Parent cell names:
\* none for a blank cell, else the id the cell's key is mapped to
RemoteParentIsSourceParent(k) ==
    remote[out[k].id].parent = Lookup(issueMapping, sheet[k].parent)

\* no step gives an entity that exists another parent
ParentIsNeverRewritten ==
    \A i \in DOMAIN remote :
        i \in DOMAIN remote' => remote'[i].parent = remote[i].parent

\* what the run did with the entity of a record whose Parent cell was edited
ParentEditUpdated(k) ==
    /\ out[k].path = "update"
    /\ out[k].id = loadState(hist.fileAtStart).issueMapping[k]
    /\ out[k].id \in DOMAIN remote
    /\ remote[out[k].id].parent = out[k].parentWas
    /\ (out[k].entity = "ok" /\ out[k].status = "ok")
          => /\ out[k].hashSet
             /\ lastHashes[k] = rowHash(sheet[k])
    /\ ~out[k].hashSet
          => lastHashes[k] = loadState(hist.fileAtStart).lastHashes[k]

(***************************************************************************)
(* The same program started where a clean run of an earlier process left   *)
(* it: the JTBD of row K2 and the Thread of row K1, whose Parent is K2,    *)
(* exist at the tracker, the Thread under the JTBD, and the state file     *)
(* holds both mappings and both fingerprints.                              *)
(***************************************************************************)
SyncedSheet ==
    [k \in Keys |->
        IF k = "K2"
        THEN [type |-> "JTBD", summary |-> SumB, parent |-> NoKey,
              status |-> "DONE", assignee |-> NoEmail, due |-> NoDate]
        ELSE [type |-> "Thread", summary |-> SumAB, parent |-> "K2",
              status |-> "DONE", assignee |-> NoEmail, due |-> NoDate]]

SyncedRemote ==
    AddIssue(AddIssue(EmptyMap, 1, NewIssue(SumB, "JTBD", None, "Done", "K2", 0)),
             2, NewIssue(SumAB, "Thread", 1, "Done", "K1", 0))

SyncedFile ==
    saveState([issueMapping |-> [k \in Keys |-> IF k = "K2" THEN 1 ELSE 2],
               lastHashes |-> [k \in Keys |-> rowHash(SyncedSheet[k])]])

SyncedInit ==
    /\ sheet = SyncedSheet
    /\ file = SyncedFile
    /\ remote = SyncedRemote
    /\ nextId = Cardinality(DOMAIN remote) + 1
    /\ pc = "idle"
    /\ issueMapping = EmptyState.issueMapping
    /\ lastHashes = EmptyState.lastHashes
    /\ results = NoResults
    /\ jiraKeySet = {}
    /\ jiraBySummary = EmptyMap
    /\ snapOk = FALSE
    /\ changedRows = <<>>
    /\ queue = <<>>
    /\ out = [k \in Keys |-> NoOut]
    /\ calls = NoCalls
    /\ hist = NoHist
    /\ used = NoUsed
    /\ allJiraIssues = EmptyMap
    /\ cascadePc = "off"
    /\ cascadeQueue = <<>>
    /\ cascadeLog = EmptyMap
    /\ parked = NoParked

SyncedSpec == SyncedInit /\ [][Next]_vars

(***************************************************************************)
(* C31.  As claimed: a mapped record of which only the Parent cell changed *)
(* gets an update call that leaves the parent of its entity as it was; the *)
(* new fingerprint is stored when the update and the status step succeed;  *)
(* the parent of the entity differs from the id the record's Parent is     *)
(* mapped to; and no step of any run gives an existing entity another      *)
(* parent.                                                                 *)
(***************************************************************************)
C31_ParentEditIsUpdatedParentKept ==
    /\ [](Processing =>
            \A k \in Keys :
               (ParentEditOnly(k) /\ Processed(k)) =>
                  /\ ParentEditUpdated(k)
                  /\ ~RemoteParentIsSourceParent(k))
    /\ [][ParentIsNeverRewritten]_vars

(***************************************************************************)
(* C31 (amended).  A mapped record of which only the Parent cell changed   *)
(* gets an update call that leaves the parent of its entity as it was,     *)
(* and the new fingerprint is stored when the update and the status step   *)
(* succeed, except that a Milestone whose new Parent has no mapping when   *)
(* its turn comes gets no update call: it is counted as failed and keeps   *)
(* its old fingerprint.  No step of any run gives an existing entity       *)
(* another parent; the parent it keeps may or may not be the one the row   *)
(* now names.                                                              *)
(***************************************************************************)
C31_ParentEditKeepsRemoteParent ==
    /\ [](Processing =>
            \A k \in Keys :
               (ParentEditOnly(k) /\ Processed(k)) =>
                  \/ /\ out[k].path = "noparent"
                     /\ sheet[k].type = "Milestone"
                     /\ Lookup(issueMapping, sheet[k].parent) = None
                     /\ out[k].entity = "none"
                     /\ out[k].failedInc = 1
                     /\ lastHashes[k] = loadState(hist.fileAtStart).lastHashes[k]
                  \/ ParentEditUpdated(k))
    /\ [][ParentIsNeverRewritten]_vars

\* a run that updated the entity of a record whose Parent cell alone was
\* edited, from K2 to blank, stored the new fingerprint and left the entity
\* under the entity of K2
C31_Witness ==
    /\ Processing
    /\ \E k \in Keys :
          /\ ParentEditOnly(k)
          /\ out[k].path = "update"
          /\ out[k].entity = "ok"
          /\ out[k].hashSet
          /\ lastHashes[k] = rowHash(sheet[k])
          /\ sheet[k].parent = NoKey
          /\ issueMapping["K2"] # None
          /\ remote[out[k].id].parent = issueMapping["K2"]

\* the row's Status cell is blank and the run sent the create or the update
\* call of the record, which the tracker accepted
BlankStatusSynced(k) ==
    /\ HasKey(k)
    /\ sheet[k].status = ""
    /\ out[k].path \in {"create", "update"}
    /\ out[k].entity = "ok"

\* the update path of a record with a blank Status cell, its entity in a
\* status other than 'Not picked yet', the workflow offering no transition
\* to it
BlankStatusRefused(k) ==
    /\ BlankStatusSynced(k)
    /\ out[k].path = "update"
    /\ lowerLabel(out[k].cur) # lowerLabel("Not picked yet")
    /\ out[k].sresp = "nopath"

(***************************************************************************)
(* C32.  For a record whose Status cell is blank, the create path and the  *)
(* update path ask the status step for 'Not picked yet', and the step      *)
(* reads the entity's status.  On the update path, when the entity is in   *)
(* another status and no transition leads to 'Not picked yet', nothing is  *)
(* posted, the entity keeps its status, the record is counted once as      *)
(* failed and its fingerprint is not stored; the row, unless it is edited, *)
(* is in the changed set of the runs that follow.                          *)
(***************************************************************************)
C32_BlankStatusAsksNotPickedYet ==
    /\ Processing =>
          \A k \in Keys :
             /\ BlankStatusSynced(k) =>
                   /\ out[k].wanted = "Not picked yet"
                   /\ out[k].read = 1
             /\ BlankStatusRefused(k) =>
                   /\ out[k].list = 1 /\ out[k].post = 0
                   /\ out[k].status = "fail"
                   /\ out[k].failedInc = 1
                   /\ results.failed >= 1
                   /\ ~out[k].hashSet
                   /\ lastHashes[k] # rowHash(sheet[k])
                   /\ remote[out[k].id].status = out[k].cur
    /\ (pc = "idle" /\ hist.ended = "saved") =>
          \A k \in hist.refusedKeys \ hist.editedKeys :
             file.text = "state" => file.lastHashes[k] # rowHash(sheet[k])
    /\ pc \in {"map", "process"} =>
          \A k \in hist.refusedKeys \ hist.editedKeys : Changed(k)

\* the run after a saved run in which the update of a record with a blank
\* Status cell found no transition to 'Not picked yet': the record is
\* processed again, through the update path, and asks for the same status
C32_Witness ==
    /\ Processing
    /\ hist.run = 2
    /\ \E k \in hist.refusedKeys \ hist.editedKeys :
          /\ Changed(k)
          /\ BlankStatusSynced(k)
          /\ out[k].path = "update"
          /\ out[k].wanted = "Not picked yet"
          /\ lowerLabel(out[k].cur) # lowerLabel("Not picked yet")

=============================================================================
